---------------------------- MODULE Spec2Model ----------------------------
(***************************************************************************)
(* A model of kenpompy's team scrapers (src/kenpompy/team.py) and of the   *)
(* batch driver (src/main.py).                                             *)
(*                                                                         *)
(* Representation.  A text cell is a sequence of words (the words of the   *)
(* text, which the page separates by single spaces), so "Big12 Conference  *)
(* Tournament" is <<"Big12", "Conference", "Tournament">> and the empty    *)
(* string is << >>.  pandas' missing value and Python's None are the       *)
(* reserved cells NaN and None.  An optional argument is a record with a   *)
(* `given` flag, so that None, 0 and a real value stay distinct.           *)
(***************************************************************************)
EXTENDS Integers, Sequences, FiniteSets, TLC

VARIABLES
    current_season,   \* what get_current_season(browser) returns
    valid_teams,      \* what get_valid_teams(browser, season) returns (a list)
    call,             \* the call in progress or finished: operation, arguments,
                      \* locals worth keeping, outcome
    main              \* main_fn's loop over the teams: position, dfs, outcome

vars == <<current_season, valid_teams, call, main>>

-----------------------------------------------------------------------------
(* Bounds of the model.                                                    *)

MaxRows == 4          \* longest schedule table enumerated exhaustively
MaxPairs == 4         \* most $("td#...").html(...) calls in a script block
MaxGames == 6         \* most rows of a minutes matrix enumerated exhaustively
MaxOppRows == 2       \* most games of a schedule served to get_next_opponent
MaxAttempts == 3      \* executions of get_next_opponent's body are counted up to here
CurrentSeason == 2025 \* the season the site is in

-----------------------------------------------------------------------------
(* Text cells.                                                             *)

NaN  == <<"<NaN>">>       \* a cell pandas read as missing
None == <<"<None>">>      \* Python's None in an object column
Empty == << >>            \* the empty string ''

\* str.contains(sub) on a cell: `sub` occurs in the text.  The words of the
\* model are atomic, so a one-word `sub` occurs iff it is one of the words.
Contains(cell, sub) == \E i \in 1..Len(cell) : cell[i] = sub

Min(S) == CHOOSE x \in S : \A y \in S : x <= y
Max(S) == CHOOSE x \in S : \A y \in S : x >= y

\* re.sub(r'(?:\sConference)?\sTournament.*?$', '', text): the leftmost match
\* starts at the whitespace before the first "Tournament" that has a word in
\* front of it, or at the whitespace before a "Conference" directly in front
\* of that "Tournament" when that "Conference" too has a word in front of it;
\* the match runs to the end of the text.
CleanName(cell) ==
    LET hits == {i \in 2..Len(cell) : cell[i] = "Tournament"}
    IN  IF hits = {} THEN cell
        ELSE LET t == Min(hits)
                 cut == IF t >= 3 /\ cell[t - 1] = "Conference" THEN t - 1 ELSE t
             IN  SubSeq(cell, 1, cut - 1)

-----------------------------------------------------------------------------
(* Raw schedule tables.  A raw row is the sequence of its cells, in the    *)
(* page's column order; since 2011 the page has 11 columns, before it has  *)
(* 10 (no team rank).                                                      *)

Columns == <<"Date", "Team Rank", "Opponent Rank", "Opponent Name", "Result",
             "Possession Number", "A", "Location", "Record", "Conference", "B">>

KeptColumns == <<"Date", "Team Rank", "Opponent Rank", "Opponent Name", "Result",
                 "Possession Number", "Location", "Record", "Conference">>

ColumnCount == 11
OldColumnCount == 10

\* Calendar days are counted from November 1st, a Saturday: day 1 is Nov 1,
\* day 31 is Dec 1.
Digits == <<"0", "1", "2", "3", "4", "5", "6", "7", "8", "9">>
Weekdays == <<"Sat", "Sun", "Mon", "Tue", "Wed", "Thu", "Fri">>
DayOfMonth(day) == IF day <= 30 THEN day ELSE day - 30
MonthOf(day) == IF day <= 30 THEN "Nov" ELSE "Dec"
TwoDigits(n) == Digits[(n \div 10) + 1] \o Digits[(n % 10) + 1]
\* a date as the site prints it: the day of the month zero-padded or not
SiteDate(day, padded) ==
    <<Weekdays[((day - 1) % 7) + 1], MonthOf(day),
      IF padded \/ DayOfMonth(day) >= 10 THEN TwoDigits(DayOfMonth(day))
      ELSE Digits[DayOfMonth(day) + 1]>>

\* a game on the given date against opp
GameRow(date, opp) ==
    <<date, <<"12">>, <<"40">>, <<opp>>, <<"W,", "80-70">>, <<"68">>,
      NaN, <<"Home">>, <<"1-0">>, NaN, NaN>>
\* a game whose row has no rank for the team
UnrankedRow(date, opp) == [GameRow(date, opp) EXCEPT ![2] = NaN]
\* a repeated header line inside the table body
HeaderRow ==
    <<<<"Date">>, <<"Rk">>, <<"Rk">>, <<"Opponent">>, <<"Result">>, <<"Poss">>,
      <<"OT">>, <<"Loc">>, <<"Record">>, <<"Conf">>, NaN>>
\* a banner line: one cell spanning the table, read into every column
Banner(text) == [c \in 1..ColumnCount |-> text]
\* a line whose Date repeats in Result without being a banner
EchoRow ==
    <<<<"TBA">>, <<"12">>, <<"40">>, <<"Duke">>, <<"TBA">>, NaN,
      NaN, <<"Away">>, NaN, NaN, NaN>>
\* a line that carries a tournament note in the rank column and a score
NotedRow ==
    <<<<"Conference", "Tournament">>, <<"NCAA", "Tournament">>, <<"40">>, <<"Duke">>,
      <<"L,", "60-70">>, <<"70">>, NaN, <<"Neutral">>, <<"1-1">>, NaN, NaN>>

ConfTourney == <<"Big12", "Conference", "Tournament">>
NCAATourney == <<"NCAA", "Tournament", "Midwest">>
NITPostseason == <<"NIT", "Postseason">>

RowKinds ==
    {GameRow(SiteDate(2, FALSE), "Duke"), HeaderRow, Banner(ConfTourney), Banner(NCAATourney),
     Banner(NITPostseason), EchoRow, NotedRow}

\* the table of the specification's example: markers at rows 2 and 7
ExampleTable ==
    <<GameRow(SiteDate(2, FALSE), "Duke"), GameRow(SiteDate(5, FALSE), "Kansas"),
      Banner(ConfTourney), GameRow(SiteDate(7, FALSE), "Baylor"),
      GameRow(SiteDate(8, FALSE), "Texas"), HeaderRow, GameRow(SiteDate(9, FALSE), "Duke"),
      Banner(NCAATourney), GameRow(SiteDate(12, FALSE), "Kansas")>>

\* game rows only, the team's rank printed in some and missing in others
MixedRankTable ==
    <<GameRow(SiteDate(9, TRUE), "Kansas"), UnrankedRow(SiteDate(10, TRUE), "Duke")>>
UnrankedTable ==
    <<UnrankedRow(SiteDate(9, TRUE), "Kansas"), UnrankedRow(SiteDate(10, TRUE), "Duke")>>

\* all sequences over S of length at most n
RECURSIVE SeqsUpTo(_, _)
SeqsUpTo(S, n) ==
    IF n = 0 THEN {<< >>}
    ELSE LET shorter == SeqsUpTo(S, n - 1)
         IN  shorter \cup {Append(s, x) : s \in {t \in shorter : Len(t) = n - 1}, x \in S}

\* a row of the page of a season that has `width` columns: seasons up to 2010
\* lack the team-rank column (the second one)
Narrow(row, width) ==
    IF width >= ColumnCount THEN row
    ELSE <<row[1]>> \o SubSeq(row, 3, ColumnCount)

RawTables(n) ==
    {[width |-> w, rows |-> [i \in 1..Len(ks) |-> Narrow(ks[i], w)]] :
        w \in {OldColumnCount, ColumnCount}, ks \in SeqsUpTo(RowKinds, n)}
    \cup {[width |-> ColumnCount, rows |-> ExampleTable],
          [width |-> ColumnCount, rows |-> MixedRankTable],
          [width |-> ColumnCount, rows |-> UnrankedTable],
          [width |-> ColumnCount + 1, rows |-> <<Banner(ConfTourney) \o <<NaN>> >>],
          [width |-> OldColumnCount - 1, rows |-> << >>]}

\* the first table of team.php (the page header), never read by the scrapers
HeaderTable == [width |-> 1, rows |-> << >>]

-----------------------------------------------------------------------------
(* Arguments.                                                              *)

NoArg == [given |-> FALSE, kind |-> "none", val |-> 0]
IntArg(n) == [given |-> TRUE, kind |-> "int", val |-> n]
StrArg(n) == [given |-> TRUE, kind |-> "str", val |-> n]   \* the text str(n)
NoTeam == [given |-> FALSE, name |-> ""]
Team(n) == [given |-> TRUE, name |-> n]

\* Python's truth value of an optional season: None and the integer 0 are
\* false, every other integer and every non-empty string ("0" too) is true
Truthy(season) == season.given /\ (season.kind = "str" \/ season.val # 0)

FirstSeason == 1999

InList(x, list) == \E i \in 1..Len(list) : list[i] = x

-----------------------------------------------------------------------------
(* get_schedule, team.py 49-123.                                           *)

\* a DataFrame is the sequence of its rows; a row is its index label `idx`
\* and its cells, a function of the column names.  A numeral is kept as the
\* word the page prints, whatever dtype its column is read with (ColumnDtype).
ReadTable(raw) ==
    [i \in 1..Len(raw.rows) |->
        [idx |-> i - 1, cells |-> raw.rows[i]]]

\* lines 93-96: pd.read_html infers a dtype per column: a column of a table
\* with rows whose cells are all numerals or missing is numeric (int64, or
\* float64 with a missing cell), any other column is object (text)
NumeralWords == {"12", "40", "68", "70"}
IsNumeral(cell) == Len(cell) = 1 /\ cell[1] \in NumeralWords
ColumnDtype(df, k) ==
    IF Len(df) > 0 /\ \A i \in 1..Len(df) : IsNumeral(df[i].cells[k]) \/ df[i].cells[k] = NaN
    THEN IF \E i \in 1..Len(df) : df[i].cells[k] = NaN THEN "float64" ELSE "int64"
    ELSE "object"

\* line 108, on the second column as it is after lines 98-103: .str raises
\* AttributeError on an int64 column, which fillna('') left as it was. A
\* float64 column has a missing cell, so fillna('') made it an object column
\* of numbers and '': .str accepts it, a number contains neither word, and
\* the | of the two masks counts the number's NaN as False. A column of text
\* is searched.
StrContainsWorks(df) == ColumnDtype(df, 2) # "int64"

\* InsertTeamRank with the column put first
InsertTeamRankFirst(cells) == <<Empty>> \o cells

\* lines 98-99: schedule_df.insert(1, 'Team Rank', '')
InsertTeamRank(cells) == <<cells[1], Empty>> \o SubSeq(cells, 2, Len(cells))

\* lines 100-103: name the 11 columns, drop 'A' and 'B', fillna('')
Tidy(cells) ==
    [c \in {KeptColumns[k] : k \in 1..Len(KeptColumns)} |->
        LET pos == CHOOSE k \in 1..Len(Columns) : Columns[k] = c
        IN  IF cells[pos] = NaN THEN Empty ELSE cells[pos]]

\* line 108: the rows whose Team Rank contains 'Tournament' or 'Postseason'
IsMarker(cells) ==
    Contains(cells["Team Rank"], "Tournament") \/ Contains(cells["Team Rank"], "Postseason")

\* lines 108-110: [index, cleaned Date] of every marker row, in row order
PostseasonLabels(df) ==
    LET marked == SelectSeq(df, LAMBDA r : IsMarker(r.cells))
    IN  [i \in 1..Len(marked) |->
            [index |-> marked[i].idx, name |-> CleanName(marked[i].cells["Date"])]]

\* schedule_df.loc[first:last, 'Postseason'] = name; .loc slices by index
\* label and includes both ends
SetLoc(df, first, last, name) ==
    [i \in 1..Len(df) |->
        IF first <= df[i].idx /\ df[i].idx <= last
        THEN [df[i] EXCEPT !.cells = [@ EXCEPT !["Postseason"] = name]]
        ELSE df[i]]

\* SliceEnd with the slice taken as Python's half-open list slice
SliceEndHalfOpen(df, labels, i) ==
    IF i # Len(labels) THEN labels[i + 1].index - 2 ELSE Len(df) - 2

\* the end of the i-th label's slice, lines 114-117
SliceEnd(df, labels, i) ==
    IF i # Len(labels) THEN labels[i + 1].index - 1 ELSE Len(df) - 1

\* lines 112-118: the while loop, from i (1-based here) on
RECURSIVE ApplyLabels(_, _, _)
ApplyLabels(df, labels, i) ==
    IF i > Len(labels) THEN df
    ELSE ApplyLabels(SetLoc(df, labels[i].index, SliceEnd(df, labels, i), labels[i].name),
                     labels, i + 1)

\* lines 106-118
Segment(df) ==
    LET blank == [i \in 1..Len(df) |->
                    [df[i] EXCEPT !.cells = [c \in DOMAIN @ \cup {"Postseason"} |->
                        IF c = "Postseason" THEN None ELSE @[c]]]]
    IN  ApplyLabels(blank, PostseasonLabels(blank), 1)

\* lines 120-121: the two boolean-mask selections
DropNonGames(df) ==
    LET a == SelectSeq(df, LAMBDA r : r.cells["Date"] # r.cells["Result"])
    IN  SelectSeq(a, LAMBDA r : r.cells["Date"] # <<"Date">>)

\* ResetIndex forgotten: the rows keep the index labels they had
ResetIndexForgotten(df) == df

\* line 123: reset_index(drop=True)
ResetIndex(df) == [i \in 1..Len(df) |-> [df[i] EXCEPT !.idx = i - 1]]

\* no table read
NoTable == [width |-> 0, rows |-> << >>]

Raise(kind, log) ==
    [status |-> kind, log |-> log, raw |-> NoTable, tidy |-> << >>,
     labelled |-> << >>, df |-> << >>]

\* the whole of get_schedule: the outcome, the fetches made (in order) and the
\* table as read (line 96), after line 103, after line 118 and as returned.  cur, teams and page are what the
\* site serves; net_ok tells whether the fetch of the team page succeeds.
get_schedule(cur, teams, page, net_ok, team, season) ==
    LET log0 == <<"current_season">>
    IN
    IF Truthy(season) /\ season.val < FirstSeason THEN Raise("InvalidSeasonError", log0)
    ELSE IF Truthy(season) /\ season.val > cur THEN Raise("InvalidSeasonError", log0)
    ELSE IF ~team.given THEN Raise("UnknownTeamError", log0)
    ELSE LET log1 == Append(log0, "valid_teams") IN
    IF ~InList(team.name, teams) THEN Raise("UnknownTeamError", log1)
    ELSE LET log2 == Append(log1, "team_page") IN
    IF ~net_ok THEN Raise("NetworkError", log2)
    ELSE IF Len(page) < 2 THEN Raise("StructureError", log2)
    ELSE LET raw == page[2]
             df0 == ReadTable(raw)
             df1 == IF raw.width = OldColumnCount
                    THEN [i \in 1..Len(df0) |-> [df0[i] EXCEPT !.cells = InsertTeamRank(@)]]
                    ELSE df0
             width1 == IF raw.width = OldColumnCount THEN raw.width + 1 ELSE raw.width
         IN
    IF width1 # ColumnCount THEN Raise("StructureError", log2)
    ELSE LET df2 == [i \in 1..Len(df1) |-> [df1[i] EXCEPT !.cells = Tidy(@)]]
             labelled == Segment(df2)
         IN
    IF ~StrContainsWorks(df1)
    THEN [Raise("StructureError", log2) EXCEPT !.raw = raw, !.tidy = df2]
    ELSE [status |-> "ok", log |-> log2, raw |-> raw, tidy |-> df2,
              labelled |-> labelled, df |-> ResetIndex(DropNonGames(labelled))]

-----------------------------------------------------------------------------
(* get_scouting_report, team.py 125-183.                                   *)

KnownCodes ==
    {"OE", "DE", "Tempo", "APLO", "APLD", "eFG", "DeFG", "TOPct", "DTOPct", "ORPct",
     "DORPct", "FTR", "DFTR", "3Pct", "D3Pct", "2Pct", "D2Pct", "FTPct", "DFTPct",
     "BlockPct", "DBlockPct", "StlRate", "DStlRate", "NSTRate", "DNSTRate", "3PARate",
     "D3PARate", "ARate", "DARate", "PD3", "DPD3", "PD2", "DPD2", "PD1", "DPD1"}

RankKey(code) == code \o ".Rank"

\* a dictionary value: '' (unset) or a number
Unset == [set |-> FALSE, val |-> 0]
Num(n) == [set |-> TRUE, val |-> n]

\* line 179: every known code and its .Rank companion, each ''
DefaultStats ==
    [k \in KnownCodes \cup {RankKey(c) : c \in KnownCodes} |-> Unset]

\* one $("td#token").html("...") call of the script: the token and, of the
\* HTML fragment, the text of its first <a> and of its first span.seed, each
\* of which the fragment may lack
Elem(n) == [found |-> TRUE, val |-> n]
NoElem == [found |-> FALSE, val |-> 0]
Pair(token, a, seed) == [token |-> token, a |-> a, seed |-> seed]

PairKinds ==
    {Pair("OE", Elem(1154), Elem(23)), Pair("OE", Elem(987), Elem(301)),
     Pair("DE", Elem(954), Elem(40)), Pair("AdjEM", Elem(200), Elem(12)),
     Pair("Tempo", NoElem, Elem(7)), Pair("eFG", Elem(512), NoElem)}

\* a sub-block of the script: absent (its pattern does not match) or the
\* calls in it, in order
NoBlock == [present |-> FALSE, pairs |-> << >>]
Block(pairs) == [present |-> TRUE, pairs |-> pairs]

\* the script element of the page: missing, without text, or its two blocks
NoScript == [kind |-> "missing", tableStart |-> NoBlock, checkbox |-> NoBlock]
EmptyScript == [kind |-> "empty", tableStart |-> NoBlock, checkbox |-> NoBlock]
Script(all, conf) == [kind |-> "text", tableStart |-> all, checkbox |-> conf]

OtherBlocks ==
    {NoBlock,
     Block(<<Pair("DE", Elem(954), Elem(40)), Pair("DE", Elem(954), Elem(40)),
             Pair("Tempo", Elem(701), Elem(5))>>)}

Scripts(n) ==
    LET blocks == {NoBlock} \cup {Block(ps) : ps \in SeqsUpTo(PairKinds, n)}
    IN  {NoScript, EmptyScript}
        \cup {Script(b, o) : b \in blocks, o \in OtherBlocks}
        \cup {Script(o, b) : b \in blocks, o \in OtherBlocks}

\* stats[2:]
Skip2(stats) == SubSeq(stats, 3, Len(stats))

\* line 177: the lambda raises AttributeError on a fragment without <a> or
\* without span.seed, and list(map(...)) raises with it
WellFormed(pair) == pair.a.found /\ pair.seed.found

\* lines 180-182, from the i-th stat on
RECURSIVE Overwrite(_, _, _)
Overwrite(d, stats, i) ==
    IF i > Len(stats) THEN d
    ELSE LET keys == {stats[i].token, RankKey(stats[i].token)}
             d1 == [k \in DOMAIN d \cup keys |->
                       IF k = stats[i].token THEN Num(stats[i].a.val)
                       ELSE IF k = RankKey(stats[i].token) THEN Num(stats[i].seed.val)
                       ELSE d[k]]
         IN  Overwrite(d1, stats, i + 1)

\* what pattern.search found (line 176), if the call got that far
Unread == [read |-> FALSE, present |-> FALSE, pairs |-> << >>]
Read(block) == [read |-> TRUE, present |-> block.present, pairs |-> block.pairs]

RaiseReport(kind, log, block) ==
    [status |-> kind, log |-> log, block |-> block, stats_df |-> DefaultStats]

\* the whole of get_scouting_report: the outcome, the fetches made, the
\* sub-block searched and the pairs findall returned (line 176), and the
\* dictionary returned
get_scouting_report(cur, teams, script, net_ok, team, season, conference_only) ==
    LET log0 == <<"current_season">>
    IN
    IF Truthy(season) /\ season.val < FirstSeason
    THEN RaiseReport("InvalidSeasonError", log0, Unread)
    ELSE IF Truthy(season) /\ season.val > cur
    THEN RaiseReport("InvalidSeasonError", log0, Unread)
    ELSE IF ~team.given THEN RaiseReport("UnknownTeamError", log0, Unread)
    ELSE LET log1 == Append(log0, "valid_teams") IN
    IF ~InList(team.name, teams) THEN RaiseReport("UnknownTeamError", log1, Unread)
    ELSE LET log2 == Append(log1, "team_page") IN
    IF ~net_ok THEN RaiseReport("NetworkError", log2, Unread)
    ELSE IF script.kind # "text" THEN RaiseReport("StructureError", log2, Unread)
    ELSE LET block == IF conference_only THEN script.checkbox ELSE script.tableStart IN
    IF ~block.present THEN RaiseReport("StructureError", log2, Read(block))
    ELSE LET stats == Skip2(block.pairs) IN
    IF \E i \in 1..Len(stats) : ~WellFormed(stats[i])
    THEN RaiseReport("StructureError", log2, Read(block))
    ELSE [status |-> "ok", log |-> log2, block |-> Read(block),
          stats_df |-> Overwrite(DefaultStats, stats, 1)]

-----------------------------------------------------------------------------
(* get_next_opponent, team.py 206-230.                                     *)

WindowDays == 4

\* strftime('%a %b %d'): the day of the month is zero-padded
Strftime(day) == SiteDate(day, TRUE)

\* lines 210-213
DATES_TO_CHECK(today) == [i \in 1..WindowDays |-> Strftime(today + (i - 1))]

\* what get_next_opponent returns: (None, None), or the Opponent Name and the
\* Result of the entry of a date; schedule.loc[date] is one row (a Series,
\* whose fields are scalars) when one entry has the date, and a DataFrame
\* (whose fields are Series, listed here in order) when several have it
NoOpponent == [shape |-> "none", opponent |-> << >>, result |-> << >>]

\* lines 218-227: the first date of the window, from the i-th on, that the
\* schedule has; a date it lacks raises KeyError, which is passed over
RECURSIVE FirstMatch(_, _, _)
FirstMatch(schedule, dates, i) ==
    IF i > Len(dates) THEN NoOpponent
    ELSE LET game == SelectSeq(schedule, LAMBDA r : r.cells["Date"] = dates[i])
         IN  IF Len(game) = 0 THEN FirstMatch(schedule, dates, i + 1)
             ELSE [shape |-> IF Len(game) = 1 THEN "scalar" ELSE "series",
                   opponent |-> [k \in 1..Len(game) |-> game[k].cells["Opponent Name"]],
                   result |-> [k \in 1..Len(game) |-> game[k].cells["Result"]]]

\* TryNextOpponent with the KeyError of a date the schedule lacks not passed
\* over: it reaches the outer except
TryNextOpponentKeyError(cur, teams, page, net_ok, team_name, today) ==
    LET s == get_schedule(cur, teams, page, net_ok, Team(team_name), NoArg)
        first == SelectSeq(s.df, LAMBDA r : r.cells["Date"] = DATES_TO_CHECK(today)[1])
    IN  IF s.status = "ok" /\ Len(first) > 0
        THEN [retry |-> FALSE, err |-> "none", read |-> TRUE, schedule |-> s.df,
              ret |-> FirstMatch(s.df, DATES_TO_CHECK(today), 1)]
        ELSE [retry |-> TRUE, err |-> IF s.status = "ok" THEN "KeyError" ELSE s.status,
              read |-> s.status = "ok", schedule |-> s.df, ret |-> NoOpponent]

\* one execution of the body of get_next_opponent (lines 208-230): it returns,
\* or it catches whatever get_schedule raised and calls itself again; the
\* schedule is what get_schedule returned, if it did
TryNextOpponent(cur, teams, page, net_ok, team_name, today) ==
    LET s == get_schedule(cur, teams, page, net_ok, Team(team_name), NoArg)
    IN  IF s.status = "ok"
        THEN [retry |-> FALSE, err |-> "none", read |-> TRUE, schedule |-> s.df,
              ret |-> FirstMatch(s.df, DATES_TO_CHECK(today), 1)]
        ELSE [retry |-> TRUE, err |-> s.status, read |-> FALSE, schedule |-> s.df,
              ret |-> NoOpponent]

-----------------------------------------------------------------------------
(* generate_team_stats, team.py 192-203, over the four aggregate tables    *)
(* main_fn passes down (main.py 25-47): each maps a team to its columns.   *)

Merge(a, b) == [k \in DOMAIN a \cup DOMAIN b |-> IF k \in DOMAIN b THEN b[k] ELSE a[k]]

HasTeam(agg, team_name) ==
    /\ team_name \in DOMAIN agg.four_factors
    /\ team_name \in DOMAIN agg.team_stats
    /\ team_name \in DOMAIN agg.points_dist
    /\ team_name \in DOMAIN agg.team_stats_def

\* {**ff, **ts, **pd, **tsd}; a team missing from a table is a KeyError
generate_team_stats(team_name, agg) ==
    Merge(Merge(Merge(agg.four_factors[team_name], agg.team_stats[team_name]),
                agg.points_dist[team_name]),
          agg.team_stats_def[team_name])

-----------------------------------------------------------------------------
(* get_player_expanded, team.py 232-342.                                   *)

LastGames == 6
NaNMinutes == -1      \* a cell of the minutes matrix pandas read as missing

\* team.replace(" ", "+").replace("&", "%26"), on the names of the model
Sanitize(name) ==
    CASE name = "Texas A&M" -> "Texas+A%26M"
      [] name = "Iowa St." -> "Iowa+St."
      [] OTHER -> name

\* pd.to_numeric(cell, errors='coerce').notnull()
NumericWords == {"3", "12", "24.5", "71.2"}
IsNumeric(cell) == Len(cell) = 1 /\ cell[1] \in NumericWords

\* line 295: a text with a blank in it keeps what is in front of the blank
LeadingToken(cell) == IF cell # NaN /\ Len(cell) > 1 THEN <<cell[1]>> ELSE cell

\* a DataFrame indexed by player name: name -> (column -> value); a column
\* missing from a row's domain is a NaN cell
NoRow == [c \in {} |-> 0]
RowOf(df, name) == IF name \in DOMAIN df THEN df[name] ELSE NoRow
\* stats_df.loc[name, col] = val (adds the row and the column when missing)
SetCell(df, name, col, val) ==
    [n \in DOMAIN df \cup {name} |->
        IF n = name
        THEN [c \in DOMAIN RowOf(df, name) \cup {col} |->
                 IF c = col THEN val ELSE RowOf(df, name)[c]]
        ELSE df[n]]

RECURSIVE SetCells(_, _, _)
\* SetCell for every column of the mapping d
SetCells(df, name, d) ==
    IF DOMAIN d = {} THEN df
    ELSE LET c == CHOOSE x \in DOMAIN d : TRUE
         IN  SetCells(SetCell(df, name, c, d[c]), name,
                      [x \in DOMAIN d \ {c} |-> d[x]])

\* lines 274-297: the season table, its sub-header rows dropped, the rank
\* annotations cut off its cells, indexed by Name (the names served here
\* carry no rank annotation, so lines 279-286 leave them as they are)
SeasonStats(table) ==
    LET rows == SelectSeq(table.rows, LAMBDA r : IsNumeric(r.Number))
    IN  [n \in {rows[k].Name : k \in 1..Len(rows)} |->
            LET r == rows[CHOOSE k \in 1..Len(rows) : rows[k].Name = n]
            IN  [c \in {"Number", "Min"} |->
                    IF c = "Number" THEN LeadingToken(r.Number) ELSE LeadingToken(r.Min)]]

\* line 300
MinutesTableAt(tables) == IF Len(tables) = 3 THEN 3 ELSE 2

\* FillZero forgotten
FillZeroForgotten(v) == v

\* line 302: fillna(0)
FillZero(v) == IF v = NaNMinutes THEN 0 ELSE v

GameField(x) == "Game -" \o Digits[x + 1]

\* lines 313-316 for game x: every player column, from the j-th on
RECURSIVE SetGame(_, _, _, _, _)
SetGame(df, cols, game, x, j) ==
    IF j > Len(cols) THEN df
    ELSE SetGame(SetCell(df, cols[j], GameField(x), FillZero(game[j])), cols, game, x, j + 1)

\* lines 308-316 from game x on: iloc[[-x]] raises IndexError when the matrix
\* has fewer than x rows, drop(columns=...) raises KeyError when the table
\* lacks the two aggregate columns
RECURSIVE GameLoop(_, _, _)
GameLoop(df, minutes, x) ==
    IF x > LastGames THEN [err |-> "none", df |-> df]
    ELSE IF Len(minutes.games) < x THEN [err |-> "IndexError", df |-> df]
    ELSE IF ~minutes.agg THEN [err |-> "KeyError", df |-> df]
    ELSE GameLoop(SetGame(df, minutes.cols, minutes.games[Len(minutes.games) - x + 1], x, 1),
                  minutes, x + 1)

NoMinutes == [kind |-> "unread", agg |-> FALSE, cols |-> << >>, games |-> << >>]

\* the number of rows pandas reads from a table
RowCount(table) ==
    CASE table.kind = "stats" -> Len(table.rows)
      [] table.kind = "minutes" -> Len(table.games)
      [] OTHER -> table.lines

\* the outcome of a call: a DataFrame returned, None returned after the
\* blanket except caught `caught`, or an exception raised to the caller
Returned(df) == [status |-> "ok", caught |-> "none", df |-> df]
ReturnedNone(caught) == [status |-> "none", caught |-> caught, df |-> NoRow]
Raised(kind) == [status |-> kind, caught |-> "none", df |-> NoRow]

Frame(pc, stats_df, minutes, ret) ==
    [pc |-> pc, stats_df |-> stats_df, minutes |-> minutes, ret |-> ret]
Caught(kind) == Frame("done", NoRow, NoMinutes, ReturnedNone(kind))

\* lines 250-328: get_player_expanded up to its call of get_next_opponent
\* (pc "opponent"), or to its end when it does not get that far
StartPlayerExpanded(teams, tables, net_ok, team, agg) ==
    IF ~team.given THEN Frame("done", NoRow, NoMinutes, Raised("TypeError"))
    ELSE IF ~InList(team.name, teams) THEN Caught("UnknownTeamError")
    ELSE IF ~net_ok THEN Caught("NetworkError")
    ELSE IF Len(tables) < 1 THEN Caught("IndexError")
    ELSE IF tables[1].kind # "stats" THEN Caught("AttributeError")
    ELSE IF Len(tables) < MinutesTableAt(tables) THEN Caught("IndexError")
    ELSE LET table == tables[MinutesTableAt(tables)] IN
    IF table.kind # "minutes"
    THEN Caught(IF RowCount(table) = 0 THEN "IndexError" ELSE "KeyError")
    ELSE LET games == GameLoop(SeasonStats(tables[1]), table, 1) IN
    IF games.err # "none" THEN Frame("done", games.df, table, ReturnedNone(games.err))
    ELSE IF Len(table.cols) = 0 THEN Frame("done", games.df, table, Returned(games.df))
    ELSE IF ~HasTeam(agg, team.name)
    THEN Frame("done", games.df, table, ReturnedNone("KeyError"))
    ELSE Frame("opponent", games.df, table, Returned(games.df))

\* lines 318-336 for every player of the matrix, the team's and the
\* opponent's features being computed once
RECURSIVE Attach(_, _, _)
Attach(df, players, d) ==
    IF players = {} THEN df
    ELSE LET p == CHOOSE x \in players : TRUE
         IN  Attach(SetCells(df, p, d), players \ {p}, d)

Prefixed(prefix, d) ==
    [k \in {prefix \o c : c \in DOMAIN d} |->
        d[CHOOSE c \in DOMAIN d : prefix \o c = k]]

RECURSIVE Join(_)
\* the text of a cell
Join(cell) ==
    IF Len(cell) = 0 THEN ""
    ELSE IF Len(cell) = 1 THEN cell[1]
    ELSE cell[1] \o " " \o Join(Tail(cell))

\* lines 318-342 once get_next_opponent has returned `found`. Line 329 looks
\* the opponent up in the aggregate tables before line 333 assigns it: of a
\* Series of two opponents the lookup fails first (KeyError) when one of them
\* is not listed, and the assignment (ValueError) otherwise.
FinishPlayerExpanded(stats_df, minutes, team, agg, found) ==
    LET players == {minutes.cols[j] : j \in 1..Len(minutes.cols)}
        own == Merge([Team |-> Sanitize(team.name)],
                     Prefixed("Team.", generate_team_stats(team.name, agg)))
    IN  IF found.shape = "none" THEN Returned(Attach(stats_df, players, own))
        ELSE IF found.shape = "series"
        THEN IF \E k \in 1..Len(found.opponent) : ~HasTeam(agg, Join(found.opponent[k]))
             THEN ReturnedNone("KeyError")
             ELSE ReturnedNone("ValueError")
        ELSE IF ~HasTeam(agg, Join(found.opponent[1])) THEN ReturnedNone("KeyError")
        ELSE Returned(Attach(stats_df, players,
                 Merge(Merge(own, [NextOpponent |-> found.opponent[1],
                                   KenPomResult |-> found.result[1]]),
                       Prefixed("Opponent.",
                                generate_team_stats(Join(found.opponent[1]), agg)))))

-----------------------------------------------------------------------------
(* What the site serves and what callers pass.                             *)

TeamLists == {<<"Duke", "Texas A&M">>}
TeamArgs == {NoTeam, Team("Texas A&M"), Team("Gonzaga")}
SeasonArgs ==
    {NoArg, IntArg(0), StrArg(0), IntArg(FirstSeason - 1), IntArg(FirstSeason),
     StrArg(CurrentSeason), IntArg(CurrentSeason + 1)}

\* team.php for the schedule scraper
TeamPages(n) == {<<HeaderTable>>} \cup {<<HeaderTable, t>> : t \in RawTables(n)}

\* the days on which get_next_opponent is called, and the dates passed to it
Todays == {8, 9}
DateArgs == {Strftime(8), Strftime(20)}

\* team.php for get_next_opponent called by itself: games around the window,
\* their dates printed either way, below a header line or with none (a page
\* of games only has its Team Rank read as numbers, unless a rank is missing)
OpponentRowKinds ==
    {GameRow(SiteDate(7, TRUE), "Duke"), GameRow(SiteDate(8, TRUE), "Kansas"),
     GameRow(SiteDate(9, FALSE), "Baylor"), GameRow(SiteDate(9, TRUE), "Iowa St."),
     GameRow(SiteDate(10, TRUE), "Texas"), GameRow(SiteDate(11, TRUE), "Duke"),
     GameRow(SiteDate(12, TRUE), "Houston"), GameRow(SiteDate(13, TRUE), "Kansas"),
     HeaderRow}
OpponentPages(n) ==
    {<<HeaderTable>>}
    \cup {<<HeaderTable, [width |-> ColumnCount, rows |-> ks]>> :
             ks \in SeqsUpTo(OpponentRowKinds, n)}
    \cup {<<HeaderTable, [width |-> ColumnCount, rows |-> <<HeaderRow>> \o ks]>> :
             ks \in SeqsUpTo(OpponentRowKinds \ {HeaderRow}, n)}
    \cup {<<HeaderTable, [width |-> ColumnCount, rows |-> MixedRankTable]>>}

\* team.php for get_next_opponent called by get_player_expanded
NestedPages ==
    {<<HeaderTable>>,
     <<HeaderTable, [width |-> ColumnCount, rows |-> << >>]>>,
     <<HeaderTable, [width |-> ColumnCount,
                     rows |-> <<GameRow(SiteDate(9, TRUE), "Kansas")>>]>>,
     <<HeaderTable, [width |-> ColumnCount,
                     rows |-> <<HeaderRow, GameRow(SiteDate(9, TRUE), "Kansas")>>]>>,
     <<HeaderTable, [width |-> ColumnCount,
                     rows |-> <<HeaderRow, GameRow(SiteDate(7, TRUE), "Duke"),
                                GameRow(SiteDate(10, TRUE), "Iowa St.")>>]>>,
     <<HeaderTable, [width |-> ColumnCount, rows |-> MixedRankTable]>>,
     <<HeaderTable, [width |-> ColumnCount,
                     rows |-> <<HeaderRow, GameRow(SiteDate(9, TRUE), "Iowa St."),
                                GameRow(SiteDate(9, TRUE), "Kansas")>>]>>}

\* the four aggregate tables, listing the teams of `teams`
Rating(t) ==
    CASE t = "Duke" -> 1 [] t = "Texas A&M" -> 2 [] t = "Kansas" -> 3 [] OTHER -> 4
Aggregates(teams) ==
    [four_factors |-> [t \in teams |-> [Conference |-> "ff", AdjOE |-> Rating(t)]],
     team_stats |-> [t \in teams |-> [Conference |-> "ts", FG3 |-> Rating(t) + 10]],
     points_dist |-> [t \in teams |-> [Conference |-> "pd", OffFT |-> Rating(t) + 20]],
     team_stats_def |-> [t \in teams |->
         [c \in {"Def.Conference", "Def.FG3"} |->
             IF c = "Def.FG3" THEN Rating(t) + 30 ELSE 0]]]
AllTeams == {"Duke", "Texas A&M", "Kansas", "Iowa St."}
FullAggregates == Aggregates(AllTeams)

\* player-expanded.php: the season table, maybe a conference table, the
\* minutes matrix
Able == "A. Able"
Baker == "B. Baker"
Cole == "C. Cole"
StatsTable(rows) == [kind |-> "stats", rows |-> rows]
SubHeader == [Number |-> NaN, Name |-> "Name", Min |-> <<"%Min">>]
Player(number, name, min) == [Number |-> <<number>>, Name |-> name, Min |-> min]
SeasonTable ==
    StatsTable(<<Player("3", Able, <<"71.2", "45">>), SubHeader,
                 Player("12", Cole, <<"24.5">>)>>)
OtherTable == [kind |-> "other", lines |-> 4]
Matrix(agg, cols, games) == [kind |-> "minutes", agg |-> agg, cols |-> cols, games |-> games]
MinuteCells(cols) ==
    IF Len(cols) = 0 THEN {<< >>}
    ELSE IF Len(cols) = 1 THEN {<<a>> : a \in {NaNMinutes, 20}}
    ELSE {<<a, 35>> : a \in {NaNMinutes, 20}}
Matrices(n) ==
    {Matrix(TRUE, cols, rows) :
        cols \in {<<Able, Baker>>}, rows \in SeqsUpTo(MinuteCells(<<Able, Baker>>), n)}
    \cup {Matrix(TRUE, <<Able>>, rows) : rows \in SeqsUpTo(MinuteCells(<<Able>>), n)}
    \cup {Matrix(TRUE, << >>, rows) : rows \in SeqsUpTo({<< >>}, n)}
    \cup {Matrix(FALSE, <<Able>>, << >>),
          Matrix(FALSE, <<Able>>, [k \in 1..LastGames |-> <<20>>]),
          Matrix(TRUE, <<Able, Baker>>,
                 <<<<NaNMinutes, 35>>>>
                 \o [k \in 1..LastGames |-> <<IF k = 2 THEN NaNMinutes ELSE 20, 35>>])}
SomeMatrix == Matrix(TRUE, <<Able, Baker>>, [k \in 1..LastGames |-> <<20, NaNMinutes>>])

\* what a call of get_player_expanded is served and passed
PlayerInputs(n) ==
    {[tables |-> <<SeasonTable, m>>, agg |-> FullAggregates] : m \in Matrices(n)}
    \cup {[tables |-> ts, agg |-> FullAggregates] :
             ts \in {<< >>, <<SeasonTable>>, <<OtherTable, SomeMatrix>>,
                     <<SeasonTable, OtherTable>>, <<SeasonTable, OtherTable, SomeMatrix>>,
                     <<SeasonTable, SomeMatrix, OtherTable, OtherTable>>}}
    \cup {[tables |-> <<SeasonTable, SomeMatrix>>, agg |-> Aggregates(AllTeams \ {t})] :
             t \in {"Kansas", "Texas A&M"}}

\* the pages and teams of the batch: few, as main_fn keeps every result
BatchTeamLists ==
    {<< >>, <<"Duke", "Texas A&M">>,
     <<"Duke", "Texas A&M", "Kansas", "Iowa St.", "Duke", "Houston">>}
BatchInputs ==
    {[tables |-> << >>, agg |-> FullAggregates],
     [tables |-> <<SeasonTable, SomeMatrix>>, agg |-> FullAggregates]}
BatchPages ==
    {<<HeaderTable>>,
     <<HeaderTable, [width |-> ColumnCount, rows |-> << >>]>>,
     <<HeaderTable, [width |-> ColumnCount,
                     rows |-> <<GameRow(SiteDate(9, TRUE), "Kansas")>>]>>,
     <<HeaderTable, [width |-> ColumnCount,
                     rows |-> <<HeaderRow, GameRow(SiteDate(9, TRUE), "Kansas")>>]>>}

-----------------------------------------------------------------------------
(* The scrapers as a state machine: the site is in some season and lists   *)
(* some teams; a caller invokes one operation, and the pages the operation *)
(* fetches are served as the site pleases.                                 *)

Idle == [op |-> "none", pc |-> "idle"]
\* the clock has not been read: no day is before it
NoClock == 0
NoBatch == [pc |-> "off", i |-> 0, dfs |-> << >>, clock |-> NoClock]

Init ==
    /\ current_season = CurrentSeason
    /\ valid_teams \in TeamLists
    /\ call = Idle
    /\ main = NoBatch

\* The team page is served only to a call that gets as far as fetching it:
\* a call that raises before (NoFetch: the same call with the fetch failing
\* ends otherwise than by the fetch's failure) has no page to be served.
NoFetch(dry) == dry.status # "NetworkError"

GetScheduleOf(pages) ==
    /\ call.pc = "idle"
    /\ \E team \in TeamArgs, season \in SeasonArgs :
         LET dry == get_schedule(current_season, valid_teams, << >>, FALSE, team, season)
         IN  \/ /\ NoFetch(dry)
                /\ call' = [op |-> "get_schedule", pc |-> "done", team |-> team,
                            season |-> season, ret |-> dry]
             \/ /\ ~NoFetch(dry)
                /\ \E net_ok \in BOOLEAN, page \in pages :
                     call' = [op |-> "get_schedule", pc |-> "done", team |-> team,
                              season |-> season,
                              ret |-> get_schedule(current_season, valid_teams, page,
                                                   net_ok, team, season)]
    /\ UNCHANGED <<current_season, valid_teams, main>>

GetScoutingReportOf(scripts) ==
    /\ call.pc = "idle"
    /\ \E team \in TeamArgs, season \in SeasonArgs, conference_only \in BOOLEAN :
         LET dry == get_scouting_report(current_season, valid_teams, NoScript, FALSE,
                                        team, season, conference_only)
         IN  \/ /\ NoFetch(dry)
                /\ call' = [op |-> "get_scouting_report", pc |-> "done", team |-> team,
                            season |-> season, conference_only |-> conference_only,
                            ret |-> dry]
             \/ /\ ~NoFetch(dry)
                /\ \E net_ok \in BOOLEAN, script \in scripts :
                     call' = [op |-> "get_scouting_report", pc |-> "done", team |-> team,
                              season |-> season, conference_only |-> conference_only,
                              ret |-> get_scouting_report(current_season, valid_teams,
                                          script, net_ok, team, season, conference_only)]
    /\ UNCHANGED <<current_season, valid_teams, main>>

GetSchedule == GetScheduleOf(TeamPages(MaxRows))
GetScoutingReport == GetScoutingReportOf(Scripts(MaxPairs))

Next == GetSchedule \/ GetScoutingReport

Spec == Init /\ [][Next]_vars

-----------------------------------------------------------------------------
(* The player records and the next opponent.                               *)

\* the record of the executions of get_next_opponent's body so far: how many
\* (counted up to MaxAttempts), and of the latest one whether get_schedule
\* returned, what it returned or raised, and whether the except branch ran
NoAttempt == [attempts |-> 0, ok |-> FALSE, err |-> "none", schedule |-> << >>,
              retried |-> FALSE]

PlayerFrame(f, team, date, today, agg) ==
    [op |-> "get_player_expanded", pc |-> f.pc, team |-> team, date |-> date,
     today |-> today, agg |-> agg, stats_df |-> f.stats_df, minutes |-> f.minutes,
     last |-> NoAttempt, ret |-> f.ret]

\* get_player_expanded, to its call of get_next_opponent or to its end
GetPlayerExpanded ==
    /\ call.pc = "idle"
    /\ main.pc = "off"
    /\ \E team \in TeamArgs, net_ok \in BOOLEAN, in \in PlayerInputs(MaxGames) :
         call' = PlayerFrame(StartPlayerExpanded(valid_teams, in.tables, net_ok,
                                                 team, in.agg),
                             team, Strftime(20), main.clock, in.agg)
    /\ UNCHANGED <<current_season, valid_teams, main>>

\* get_next_opponent called by itself, to the start of its try block
GetNextOpponent ==
    /\ call.pc = "idle"
    /\ main.pc = "off"
    /\ \E team \in TeamArgs, date \in DateArgs :
         call' = [op |-> "get_next_opponent",
                  pc |-> IF team.given THEN "opponent" ELSE "done",
                  team |-> team, date |-> date, today |-> NoClock, last |-> NoAttempt,
                  ret |-> IF team.given THEN Returned(NoOpponent) ELSE Raised("TypeError")]
    /\ UNCHANGED <<current_season, valid_teams, main>>

Count(n) == IF n < MaxAttempts THEN n + 1 ELSE n

\* one execution of get_next_opponent's body: it returns to its caller, which
\* goes on to its own end, or it fails and calls itself again (line 230). Each
\* retry is one more frame on the interpreter's stack: the code sets no limit
\* of its own, so after MaxAttempts executions or more the interpreter may
\* refuse the next call with RecursionError, which leaves every frame through
\* its except block and reaches the caller (get_player_expanded catches it).
\* Every execution reads the clock anew (line 209); the clock never runs back.
OpponentAttempt ==
    /\ call.pc = "opponent"
    /\ \E net_ok \in BOOLEAN, today \in {d \in Todays : d >= call.today},
          page \in IF call.op = "get_next_opponent" THEN OpponentPages(MaxOppRows)
                   ELSE IF main.pc = "off" THEN NestedPages ELSE BatchPages :
         LET t == TryNextOpponent(current_season, valid_teams, page, net_ok,
                                  call.team.name, today)
             last == [attempts |-> Count(call.last.attempts), ok |-> t.read,
                      err |-> t.err, schedule |-> t.schedule, retried |-> t.retry]
         IN  IF t.retry
             THEN \/ call' = [call EXCEPT !.today = today, !.last = last]
                  \/ /\ call.last.attempts = MaxAttempts
                     /\ call' = [call EXCEPT !.pc = "done", !.today = today, !.last = last,
                                    !.ret = IF call.op = "get_next_opponent"
                                            THEN Raised("RecursionError")
                                            ELSE ReturnedNone("RecursionError")]
             ELSE IF call.op = "get_next_opponent"
             THEN call' = [call EXCEPT !.pc = "done", !.today = today, !.last = last,
                                       !.ret = Returned(t.ret)]
             ELSE call' = [call EXCEPT !.pc = "done", !.today = today, !.last = last,
                              !.ret = FinishPlayerExpanded(call.stats_df, call.minutes,
                                                           call.team, call.agg, t.ret)]
    /\ UNCHANGED <<current_season, valid_teams, main>>

\* the two scrapers of team.php again, on few pages
GetScheduleToo == GetScheduleOf(NestedPages)
GetScoutingReportToo == GetScoutingReportOf(Scripts(0))

NextPlayers ==
    \/ GetPlayerExpanded
    \/ GetNextOpponent
    \/ OpponentAttempt
    \/ GetScheduleToo
    \/ GetScoutingReportToo

SpecPlayers == Init /\ [][NextPlayers]_vars

-----------------------------------------------------------------------------
(* main_fn's batch, src/main.py lines 49-59.                               *)

\* line 53: teams[:5]
BatchLimit == 5
FirstTeams(teams) == SubSeq(teams, 1, Min({BatchLimit, Len(teams)}))

\* lines 49-52: the teams are listed and dfs is empty
Batch(pc, i, dfs, error, player_df) ==
    [pc |-> pc, i |-> i, dfs |-> dfs, error |-> error, player_df |-> player_df,
     clock |-> NoClock]
InitBatch ==
    /\ current_season = CurrentSeason
    /\ valid_teams \in BatchTeamLists
    /\ call = Idle
    /\ main = Batch("loop", 1, << >>, "none", << >>)

\* line 54: the loop calls get_player_expanded for its next team
BatchCall ==
    /\ main.pc = "loop"
    /\ call.pc = "idle"
    /\ main.i <= Len(FirstTeams(valid_teams))
    /\ \E net_ok \in BOOLEAN, in \in BatchInputs :
         LET team == Team(valid_teams[main.i])
         IN  call' = PlayerFrame(StartPlayerExpanded(valid_teams, in.tables, net_ok,
                                                     team, in.agg),
                                 team, Strftime(20), main.clock, in.agg)
    /\ UNCHANGED <<current_season, valid_teams, main>>

\* line 55: what the call returned, None included, is appended; an exception
\* the call raised ends main_fn. The next call's clock starts from this one's.
BatchAppend ==
    /\ main.pc = "loop"
    /\ call.pc = "done"
    /\ main' = IF call.ret.status \in {"ok", "none"}
               THEN [main EXCEPT !.i = @ + 1, !.dfs = Append(@, call.ret),
                                 !.clock = call.today]
               ELSE [main EXCEPT !.pc = "aborted", !.error = call.ret.status,
                                 !.clock = call.today]
    /\ call' = Idle
    /\ UNCHANGED <<current_season, valid_teams>>

\* pd.concat drops the None objects and raises ValueError when nothing is left
Concat(dfs) == SelectSeq(dfs, LAMBDA r : r.status = "ok")
HasColumn(frames, c) ==
    \E k \in 1..Len(frames) : \E n \in DOMAIN frames[k].df : c \in DOMAIN frames[k].df[n]
\* line 59: the rows whose NextOpponent is not null
NotNull(df, c) ==
    LET names == {n \in DOMAIN df : c \in DOMAIN df[n] /\ df[n][c] # NaN}
    IN  [n \in names |-> df[n]]

\* lines 58-59, after the loop
BatchConcat ==
    /\ main.pc = "loop"
    /\ call.pc = "idle"
    /\ main.i > Len(FirstTeams(valid_teams))
    /\ LET frames == Concat(main.dfs)
       IN  main' =
             IF Len(frames) = 0 THEN [main EXCEPT !.pc = "aborted", !.error = "ValueError"]
             ELSE IF ~HasColumn(frames, "NextOpponent")
             THEN [main EXCEPT !.pc = "aborted", !.error = "AttributeError"]
             ELSE [main EXCEPT !.pc = "finished",
                      !.player_df = [k \in 1..Len(frames) |->
                                        NotNull(frames[k].df, "NextOpponent")]]
    /\ UNCHANGED <<current_season, valid_teams, call>>

NextBatch ==
    \/ BatchCall
    \/ OpponentAttempt
    \/ BatchAppend
    \/ BatchConcat

SpecBatch == InitBatch /\ [][NextBatch]_vars

-----------------------------------------------------------------------------
(* Properties of get_schedule.                                             *)

ScheduleDone ==
    call.op = "get_schedule" /\ call.pc = "done" /\ call.ret.status = "ok"

\* get_schedule read a table of 10 or 11 columns and came past line 103,
\* whether or not it failed later
Normalized ==
    call.op = "get_schedule" /\ call.pc = "done" /\ call.ret.raw # NoTable

Label(r) == r.cells["Postseason"]

\* every row of df carries the cleaned name of the last marker row at or
\* before it, and null when there is none
LabelledByLastMarker(df) ==
    \A r \in 1..Len(df) :
        LET before == {m \in 1..r : IsMarker(df[m].cells)}
        IN  Label(df[r]) = IF before = {} THEN None
                           ELSE CleanName(df[Max(before)].cells["Date"])

\* C1: for every schedule table get_schedule has read and normalized, the
\* labelling loop ends and every row carries the cleaned name of the last
\* marker row at or before it, and null when there is no marker at or before
\* it (so a marker followed at once by another labels no row but itself, and
\* a table without markers has null labels only).
C1_LabelIsLastMarker ==
    Normalized =>
        /\ call.ret.status = "ok"
        /\ Len(call.ret.labelled) = Len(call.ret.raw.rows)
        /\ LabelledByLastMarker(call.ret.labelled)

\* what the code does: the tables it labels, it labels so; the tables it
\* does not are those whose Team Rank column is read as numbers
LabelIsLastMarkerWhenReturned ==
    Normalized =>
        IF StrContainsWorks(ReadTable(call.ret.raw)) \/ call.ret.raw.width = OldColumnCount
        THEN /\ call.ret.status = "ok"
             /\ Len(call.ret.labelled) = Len(call.ret.raw.rows)
             /\ LabelledByLastMarker(call.ret.labelled)
        ELSE call.ret.status = "StructureError"

\* the specification's example: markers at rows 2 and 7 of a longer table
MarkersAtTwoAndSevenSeen ==
    /\ ScheduleDone
    /\ LET df == call.ret.labelled
       IN  /\ Len(df) = 9
           /\ {m \in 1..Len(df) : IsMarker(df[m].cells)} = {3, 8}
           /\ \A r \in 1..2 : Label(df[r]) = None
           /\ \A r \in 3..7 : Label(df[r]) = <<"Big12">>
           /\ \A r \in 8..9 : Label(df[r]) = <<"NCAA">>

\* two marker rows in a row: the first one's name stays on its own row only
AdjacentMarkersSeen ==
    /\ ScheduleDone
    /\ LET df == call.ret.labelled
       IN  \E r \in 1..Len(df) - 2 :
              /\ IsMarker(df[r].cells) /\ IsMarker(df[r + 1].cells)
              /\ Label(df[r]) # Label(df[r + 1])
              /\ Label(df[r + 2]) = Label(df[r + 1])

IsGame(r) == r.cells["Date"] # r.cells["Result"] /\ r.cells["Date"] # <<"Date">>

\* C2: the returned table holds exactly the rows that are games (Date differs
\* from Result and is not the word Date), in their original order, each with
\* the cells (label included) it had before the drop, indexed 0..N-1.
C2_OnlyGamesReindexed ==
    ScheduleDone =>
        LET inp == call.ret.labelled
            out == call.ret.df
            games == {j \in 1..Len(inp) : IsGame(inp[j])}
        IN  /\ Len(out) = Cardinality(games)
            /\ \A i \in 1..Len(out) :
                  /\ out[i].idx = i - 1
                  /\ IsGame(out[i])
                  /\ \E j \in games :
                        /\ Cardinality({k \in games : k <= j}) = i
                        /\ out[i].cells = inp[j].cells

C2_Witness ==
    /\ ScheduleDone
    /\ LET inp == call.ret.labelled
           out == call.ret.df
       IN  /\ \E j \in 1..Len(inp) : inp[j].cells["Date"] = <<"Date">>
           /\ \E j \in 1..Len(inp) :
                 inp[j].cells["Date"] = inp[j].cells["Result"] /\ ~IsMarker(inp[j].cells)
           /\ \E j \in 2..Len(inp) : ~IsGame(inp[j - 1]) /\ IsGame(inp[j])
           /\ \E i \in 1..Len(out) : Label(out[i]) # None

\* the text of a cell of the page: a cell without text is read as NaN
TextOf(cell) == IF cell = NaN THEN Empty ELSE cell
\* the place of a column among the 11 of the page
PlaceOf(c) == CHOOSE k \in 1..Len(Columns) : Columns[k] = c

\* C11: a table read with 10 columns gets an empty Team Rank as its second
\* column, every other field keeping its text and its place in the order; a
\* table read with 11 columns keeps the text of every field, Team Rank
\* included; either way every row has exactly the columns Date, Team Rank,
\* Opponent Rank, Opponent Name, Result, Possession Number, Location, Record,
\* Conference.
C11_TeamRankInsertedOnce ==
    Normalized =>
        LET raw == call.ret.raw
            out == call.ret.tidy
        IN  /\ Len(out) = Len(raw.rows)
            /\ \A i \in 1..Len(out) :
                  /\ DOMAIN out[i].cells = {KeptColumns[k] : k \in 1..Len(KeptColumns)}
                  /\ \A c \in DOMAIN out[i].cells :
                        out[i].cells[c] =
                          IF raw.width = ColumnCount THEN TextOf(raw.rows[i][PlaceOf(c)])
                          ELSE IF c = "Team Rank" THEN Empty
                          ELSE IF c = "Date" THEN TextOf(raw.rows[i][1])
                          ELSE TextOf(raw.rows[i][PlaceOf(c) - 1])

\* a table of 10 columns, games and a header line in it, a cell without text
C11_Witness ==
    /\ ScheduleDone
    /\ call.ret.raw.width = OldColumnCount
    /\ Len(call.ret.tidy) >= 2
    /\ \E i \in 1..Len(call.ret.tidy) :
          /\ call.ret.tidy[i].cells["Team Rank"] = Empty
          /\ call.ret.tidy[i].cells["Opponent Rank"] = <<"40">>
          /\ NaN \in {call.ret.raw.rows[i][k] : k \in 1..OldColumnCount}
    /\ \E i \in 1..Len(call.ret.tidy) : call.ret.tidy[i].cells["Date"] = <<"Date">>

\* a table of 11 columns, every Team Rank a numeral: normalized, then refused
\* by line 108
NumericTeamRankSeen ==
    /\ Normalized
    /\ call.ret.status = "StructureError"
    /\ Len(call.ret.tidy) = MaxRows
    /\ \A i \in 1..Len(call.ret.tidy) : call.ret.tidy[i].cells["Team Rank"] = <<"12">>

\* a table of 11 columns, Team Rank a numeral in one game and missing in
\* another: no marker is found and both games are returned with null labels
MixedTeamRankSeen ==
    /\ ScheduleDone
    /\ call.ret.raw.rows = MixedRankTable
    /\ Len(call.ret.df) = 2
    /\ call.ret.df[1].cells["Team Rank"] = <<"12">>
    /\ call.ret.df[2].cells["Team Rank"] = Empty
    /\ \A i \in 1..2 : call.ret.df[i].cells["Postseason"] = None

\* a table of 11 columns whose Team Rank is kept
FullTableSeen ==
    /\ ScheduleDone
    /\ call.ret.raw.width = ColumnCount
    /\ \E i \in 1..Len(call.ret.tidy) : call.ret.tidy[i].cells["Team Rank"] = <<"12">>

-----------------------------------------------------------------------------
(* Validation of the arguments.                                            *)

OutOfRange(season) ==
    season.given /\ (season.val < FirstSeason \/ season.val > current_season)

\* C3: get_schedule and get_scouting_report raise the invalid-season error for
\* every requested season outside 1999..current season, before the team list
\* or the team page is fetched, and never for a season inside the range.
C3_SeasonOutOfRangeRaises ==
    (call.pc = "done" /\ call.op \in {"get_schedule", "get_scouting_report"}) =>
        /\ OutOfRange(call.season) =>
              /\ call.ret.status = "InvalidSeasonError"
              /\ call.ret.log = <<"current_season">>
        /\ ~OutOfRange(call.season) => call.ret.status # "InvalidSeasonError"

TeamScoped == {"get_schedule", "get_scouting_report", "get_player_expanded"}
SeasonOK == call.op = "get_player_expanded" \/ call.ret.status # "InvalidSeasonError"
Unlisted(team) == ~team.given \/ ~InList(team.name, valid_teams)

\* C4: a call of get_schedule, get_scouting_report or get_player_expanded
\* for a team that is not in the list of the season's teams, or for no team,
\* ends by raising the unknown-team error to its caller.
C4_UnlistedTeamRaises ==
    (call.pc = "done" /\ call.op \in TeamScoped /\ SeasonOK /\ Unlisted(call.team))
        => call.ret.status = "UnknownTeamError"

\* the same of the two scrapers of team.php alone
UnlistedTeamRaisesInScrapers ==
    (call.pc = "done" /\ call.op \in {"get_schedule", "get_scouting_report"}
        /\ SeasonOK /\ Unlisted(call.team))
        => call.ret.status = "UnknownTeamError"

\* every season that is given, reads as true and is out of range is refused
\* before anything else is fetched
TruthySeasonOutOfRangeRaises ==
    (call.pc = "done" /\ call.op \in {"get_schedule", "get_scouting_report"}
        /\ OutOfRange(call.season) /\ Truthy(call.season)) =>
        /\ call.ret.status = "InvalidSeasonError"
        /\ call.ret.log = <<"current_season">>

-----------------------------------------------------------------------------
(* Properties of get_scouting_report.                                      *)

ReportDone == call.op = "get_scouting_report" /\ call.pc = "done"

\* the pairs that count: those after the first two
Counted(pairs, code) == {i \in 3..Len(pairs) : pairs[i].token = code}

\* C5: the mapping returned has exactly the known codes and their .Rank
\* companions as keys; a known code holds the (value, rank) of its pair when
\* it is among the pairs after the first two, and is unset otherwise.
C5_ExactlyKnownCodes ==
    (ReportDone /\ call.ret.status = "ok") =>
        LET d == call.ret.stats_df
            pairs == call.ret.block.pairs
        IN  /\ DOMAIN d = KnownCodes \cup {RankKey(c) : c \in KnownCodes}
            /\ \A c \in KnownCodes :
                  IF Counted(pairs, c) = {}
                  THEN d[c] = Unset /\ d[RankKey(c)] = Unset
                  ELSE /\ d[c] = Num(pairs[Max(Counted(pairs, c))].a.val)
                       /\ d[RankKey(c)] = Num(pairs[Max(Counted(pairs, c))].seed.val)

\* C6: a missing sub-block fails the call with the structure error; a pair
\* without its anchor or its seed span is skipped alone, the call still
\* returning the values of every well-formed pair.
C6_MalformedPairSkipped ==
    (ReportDone /\ call.ret.block.read) =>
        LET d == call.ret.stats_df
            pairs == call.ret.block.pairs
        IN  IF ~call.ret.block.present THEN call.ret.status = "StructureError"
            ELSE /\ call.ret.status = "ok"
                 /\ \A c \in KnownCodes :
                       LET good == {i \in Counted(pairs, c) : WellFormed(pairs[i])}
                       IN  good # {} => d[c] = Num(pairs[Max(good)].a.val)

-----------------------------------------------------------------------------
(* Properties of get_player_expanded.                                      *)

\* the minutes matrix was read by a call of get_player_expanded
MatrixRead == call.op = "get_player_expanded" /\ call.minutes.kind = "minutes"

\* the matrix's row of game -k, and whether column j has a value in it
GameOf(m, k) == m.games[Len(m.games) - k + 1]
Recorded(m, j, k) == k <= Len(m.games) /\ GameOf(m, k)[j] # NaNMinutes
HasField(df, name, col) == col \in DOMAIN RowOf(df, name)

\* C7: whenever the minutes matrix is read, with 6 game rows or fewer or more,
\* the game loop ends without IndexError and a player of the matrix has the
\* field Game -k exactly when the matrix has a value for them in game -k: a
\* game they are not recorded in leaves the field absent, not zero.
C7_OnlyRecordedGames ==
    (MatrixRead /\ call.minutes.agg) =>
        LET m == call.minutes
        IN  /\ ~(call.pc = "done" /\ call.ret.caught = "IndexError")
            /\ \A j \in 1..Len(m.cols), k \in 1..LastGames :
                  HasField(call.stats_df, m.cols[j], GameField(k)) <=> Recorded(m, j, k)

\* What the code does instead: when the matrix has its two aggregate columns
\* and at least 6 rows,
\* every player column of it gets all of Game -1..Game -6, each holding the
\* minutes of that row, 0 where the row has no value for the player, in the
\* table built and in the records returned; a player of the season table who
\* is no column of the matrix gets none of them; with fewer than 6 rows, or
\* without the aggregate columns, the call returns None.
SixFieldsZeroFilled ==
    MatrixRead =>
        LET m == call.minutes
            players == {m.cols[j] : j \in 1..Len(m.cols)}
            Filled(df) ==
                /\ \A j \in 1..Len(m.cols), k \in 1..LastGames :
                      /\ HasField(df, m.cols[j], GameField(k))
                      /\ df[m.cols[j]][GameField(k)] =
                            IF Recorded(m, j, k) THEN GameOf(m, k)[j] ELSE 0
                /\ \A n \in DOMAIN df \ players, k \in 1..LastGames :
                      ~HasField(df, n, GameField(k))
        IN  IF Len(m.games) < LastGames \/ ~m.agg
            THEN /\ call.pc = "done"
                 /\ call.ret = ReturnedNone(IF Len(m.games) < LastGames THEN "IndexError"
                                            ELSE "KeyError")
            ELSE /\ Filled(call.stats_df)
                 /\ (call.pc = "done" /\ call.ret.status = "ok") => Filled(call.ret.df)

\* records returned in which a player has minutes in one of the last six
\* games and a 0 in another, the matrix having more rows than six
SixFieldsSeen ==
    /\ MatrixRead
    /\ call.pc = "done"
    /\ call.ret.status = "ok"
    /\ Len(call.minutes.games) > LastGames
    /\ \E k1, k2 \in 1..LastGames :
          /\ Recorded(call.minutes, 1, k1)
          /\ ~Recorded(call.minutes, 1, k2)
          /\ HasField(call.ret.df, Able, "NextOpponent")
          /\ call.ret.df[Able][GameField(k1)] = 20
          /\ call.ret.df[Able][GameField(k2)] = 0
          /\ call.ret.df[Able]["NextOpponent"] = <<"Kansas">>

-----------------------------------------------------------------------------
(* Properties of get_next_opponent.                                        *)

\* get_next_opponent's body has been executed, by a call of it or by the
\* call get_player_expanded makes
Attempted ==
    call.op \in {"get_next_opponent", "get_player_expanded"} /\ call.last.attempts > 0

\* the entry is on one of the days of the window, however the day is printed
InWindow(r, today) ==
    \E d \in 0..WindowDays - 1 :
        r.cells["Date"] \in {SiteDate(today + d, TRUE), SiteDate(today + d, FALSE)}

NothingInWindow ==
    \A i \in 1..Len(call.last.schedule) : ~InWindow(call.last.schedule[i], call.today)

\* C8: when get_schedule returned and the schedule has no entry on any of the
\* 4 days of the window, that execution of get_next_opponent returns
\* (None, None): it does not raise or call itself again, and a
\* get_player_expanded that called it returns its records without the
\* opponent's columns.
C8_NoGameNoOpponent ==
    (Attempted /\ call.last.ok /\ NothingInWindow) =>
        /\ call.pc = "done"
        /\ ~call.last.retried
        /\ call.op = "get_next_opponent" => call.ret = Returned(NoOpponent)
        /\ call.op = "get_player_expanded" =>
              /\ call.ret.status = "ok"
              /\ \A n \in DOMAIN call.ret.df : ~HasField(call.ret.df, n, "NextOpponent")

\* a schedule of games, all of them before or after the window
C8_Witness ==
    /\ Attempted
    /\ call.op = "get_next_opponent"
    /\ call.last.ok
    /\ NothingInWindow
    /\ Len(call.last.schedule) = MaxOppRows
    /\ call.ret = Returned(NoOpponent)

\* get_next_opponent, called by itself, has returned
OpponentReturned ==
    call.op = "get_next_opponent" /\ call.pc = "done" /\ call.last.ok

\* the day a formatted date names, and the entries of the schedule on a day
DayOf(date) == CHOOSE d \in 1..30 : Strftime(d) = date
OnDay(schedule, d) ==
    SelectSeq(schedule, LAMBDA r : r.cells["Date"] \in {SiteDate(d, TRUE), SiteDate(d, FALSE)})
Padded(schedule, d) ==
    SelectSeq(schedule, LAMBDA r : r.cells["Date"] = SiteDate(d, TRUE))

\* C12: get_next_opponent returns the opponent and the result of the entry
\* on the earliest of the 4 days starting at the date it is passed that has
\* an entry, and (None, None) when none of them has one; so never an entry
\* of a later day when an earlier day of the window has one, and never one
\* outside the window.
C12_EarliestInSuppliedWindow ==
    OpponentReturned =>
        LET first == DayOf(call.date)
            days == {d \in first..first + WindowDays - 1 :
                        Len(OnDay(call.last.schedule, d)) > 0}
        IN  IF days = {} THEN call.ret = Returned(NoOpponent)
            ELSE /\ call.ret.status = "ok"
                 /\ call.ret.df.shape = "scalar"
                 /\ \E i \in 1..Len(OnDay(call.last.schedule, Min(days))) :
                       LET game == OnDay(call.last.schedule, Min(days))[i]
                       IN  /\ call.ret.df.opponent = <<game.cells["Opponent Name"]>>
                           /\ call.ret.df.result = <<game.cells["Result"]>>

\* What the code does instead: the window starts at the clock's today,
\* whatever date is passed; an entry counts on a day when its Date is that
\* day as strftime prints it, the day of the month in two digits; the entries
\* of the earliest such day are returned, all of them when there are several.
ClockWindowPaddedMatch ==
    OpponentReturned =>
        LET days == {d \in call.today..call.today + WindowDays - 1 :
                        Len(Padded(call.last.schedule, d)) > 0}
        IN  IF days = {} THEN call.ret = Returned(NoOpponent)
            ELSE LET games == Padded(call.last.schedule, Min(days))
                 IN  /\ call.ret.status = "ok"
                     /\ call.ret.df.shape = IF Len(games) = 1 THEN "scalar" ELSE "series"
                     /\ call.ret.df.opponent =
                           [k \in 1..Len(games) |-> games[k].cells["Opponent Name"]]
                     /\ call.ret.df.result =
                           [k \in 1..Len(games) |-> games[k].cells["Result"]]

\* the date passed is the clock's today, the schedule has a padded entry on
\* the second day of the window and another on the fourth: the second day's
\* is returned
ClockWindowSeen ==
    /\ OpponentReturned
    /\ call.date = Strftime(call.today)
    /\ Len(call.last.schedule) = 2
    /\ Len(Padded(call.last.schedule, call.today + 1)) = 1
    /\ Len(Padded(call.last.schedule, call.today + 3)) = 1
    /\ call.ret.df.shape = "scalar"
    /\ call.ret.df.opponent =
          <<Padded(call.last.schedule, call.today + 1)[1].cells["Opponent Name"]>>

\* C9: a call of get_next_opponent whose attempts fail makes at most
\* MaxAttempts of them, and after the last one raises the transient-fetch
\* failure to its caller instead of trying again.
C9_BoundedRetry ==
    (call.op = "get_next_opponent" /\ Attempted /\ ~call.last.ok) =>
        IF call.last.attempts < MaxAttempts THEN call.pc = "opponent"
        ELSE call.pc = "done" /\ call.ret = Raised("TransientFetchError")

ValidationErrors == {"InvalidSeasonError", "UnknownTeamError"}

\* C13: when get_schedule refuses the season or the team inside
\* get_next_opponent, the call ends at once by raising that error to its
\* caller: it is the first execution of the body and there is no retry.
C13_ValidationErrorNotRetried ==
    (call.op = "get_next_opponent" /\ Attempted /\ call.last.err \in ValidationErrors) =>
        /\ call.pc = "done"
        /\ call.ret = Raised(call.last.err)
        /\ call.last.attempts = 1
        /\ ~call.last.retried

\* What the code does instead: a team that is not listed is refused by
\* get_schedule at every execution, each refusal is caught and retried, and
\* the call can only end by the interpreter's RecursionError.
UnlistedTeamRetried ==
    (call.op = "get_next_opponent" /\ Attempted /\ ~InList(call.team.name, valid_teams)) =>
        /\ call.last.err = "UnknownTeamError"
        /\ call.last.retried
        /\ call.pc = "done" => call.ret = Raised("RecursionError")

\* the refusal retried MaxAttempts times and more
UnlistedTeamRetriedSeen ==
    /\ call.op = "get_next_opponent"
    /\ call.pc = "opponent"
    /\ call.last.attempts = MaxAttempts
    /\ call.last.err = "UnknownTeamError"

-----------------------------------------------------------------------------
(* Properties of main_fn's batch.                                          *)

\* C10: in the batch, the teams that fail are skipped and the batch reaches
\* its final concatenation and filter: with teams listed, main_fn never ends
\* by an exception, whichever teams failed.
C10_BatchSurvivesFailures ==
    Len(valid_teams) > 0 => main.pc # "aborted"

=============================================================================
